---- MODULE Spec2Model ----
(***************************************************************************)
(* A model of transfer.py: the inventory walk, the per-file skip-or-copy   *)
(* decision, the chunked copy loop and the progress computation of         *)
(* transfer_directory, and main's argument checks.                         *)
(*                                                                         *)
(* The file system is one map from paths to entries.  A path is a record   *)
(* [root, dir, name]: root "S" is the source tree, root "D" a destination  *)
(* tree disjoint from it; dir is the sequence of directory segments below  *)
(* the root and name the sequence of characters of the file name.  A path  *)
(* with the empty name is what os.path.join(dirname, "") denotes: the      *)
(* directory itself.                                                       *)
(***************************************************************************)
EXTENDS Integers, Sequences, FiniteSets, TLC

\* ------------------------------------------------------------------ bounds

\* Largest size (in bytes) of a source or pre-existing destination file.
MaxSize == 4

\* What os.path.getsize reports for a directory (file-system dependent).
DirSize == 1

\* The chunk size of src.read(1024 * 1024), scaled down to 2 bytes.
CHUNK == 2

\* Values time.time() - start_time takes in the model (0: same clock tick).
ElapsedValues == {0, 1}

\* ------------------------------------------------------- names and paths

\* Characters of names are "a" and "e" (printable ASCII), "bel" (the ASCII
\* control character 0x07), "e_acute" (a letter with a diacritic; NFKD: base
\* letter + combining mark) and "kanji" (a character with no ASCII
\* decomposition).

\* unicodedata.normalize('NFKD', ch) for one character.
NFKD(ch) == IF ch = "e_acute" THEN <<"e", "combining_acute">> ELSE <<ch>>

\* Whether .encode('ascii', 'ignore') keeps the character.
IsAscii(ch) == ch \in {"a", "e", "bel"}

RECURSIVE normalize(_)
normalize(s) == IF s = <<>> THEN <<>> ELSE NFKD(Head(s)) \o normalize(Tail(s))

RECURSIVE encode_ascii_ignore(_)
encode_ascii_ignore(s) ==
    IF s = <<>> THEN <<>>
    ELSE (IF IsAscii(Head(s)) THEN <<Head(s)>> ELSE <<>>)
         \o encode_ascii_ignore(Tail(s))

safe_string(s) == encode_ascii_ignore(normalize(s))

source_dir == "S"

Roots == {"S", "D"}
RootDir == <<>>
\* The one sub directory; its one segment is a name with a non-ASCII letter.
SubDir == << <<"e_acute">> >>

NameEAcute == <<"e_acute">>
NameE == <<"e">>
NameA == <<"a">>
NameKanji == <<"kanji">>
NameBel == <<"a", "bel">>

Path(r, d, n) == [root |-> r, dir |-> d, name |-> n]

\* The paths of the model: the source's entries and what they sanitize to.
Paths ==
    { Path("S", RootDir, NameEAcute), Path("S", RootDir, NameE),
      Path("S", SubDir, NameA), Path("S", SubDir, NameKanji),
      Path("S", SubDir, NameBel),
      Path("D", RootDir, NameE), Path("D", SubDir, NameA),
      Path("D", SubDir, NameBel) }

\* os.walk order over the source tree: the root's file names, then sub's.
WalkOrder ==
    << Path("S", RootDir, NameEAcute), Path("S", RootDir, NameE),
       Path("S", SubDir, NameA), Path("S", SubDir, NameKanji),
       Path("S", SubDir, NameBel) >>

\* ------------------------------------------------------------ file system

NoFile == [kind |-> "none", data |-> <<>>]
File(data) == [kind |-> "file", data |-> data]
\* A symbolic link; data is the content of the file it points to.
Link(data) == [kind |-> "link", data |-> data]

\* n bytes, each tagged with the file it belongs to and its offset.
Data(tag, n) == [i \in 1..n |-> <<tag, i>>]

\* ------------------------------------------------------------------ state

VARIABLES
    argc,              \* len(sys.argv)
    verb,              \* sys.argv[1]
    destination_dir,   \* sys.argv[3], as the root it names
    subDenied,         \* the source's sub directory is listable but not searchable
    fs,                \* path -> entry
    fs0,               \* the file system when the run started
    dirs,              \* the directories that exist, as [root, dir]
    pc,                \* "main", "walk", "loop", "copy", "done", "exit1", "crashed",
                       \* "killed"
    exit_code,         \* the process's exit status, -1 while it runs
    exc,               \* the uncaught exception that ended the process, or "none"
    run,               \* 1 for the first invocation, 2 for the second
    walk_todo,         \* what os.walk has still to yield
    files_list,
    total_size_bytes,
    completed_bytes,
    resume_notified,
    notices,           \* the names printed by the first-copy notice
    idx,               \* position of the for loop in files_list
    transferred_bytes,
    stats,             \* the last progress line, or NoStats
    warned_walk,       \* paths named by "Permission Denied" warnings
    warned,            \* paths named by "Error transferring" warnings
    outcome,           \* per source path: the branch its processing took in this run
    prev_outcome       \* outcome of the previous invocation

vars == << argc, verb, destination_dir, subDenied, fs, fs0, dirs, pc, exit_code,
           exc, run, walk_todo, files_list, total_size_bytes, completed_bytes,
           resume_notified, notices, idx, transferred_bytes, stats, warned_walk,
           warned, outcome, prev_outcome >>

SrcPaths == {p \in Paths : p.root = source_dir}
NoStats == [elapsed |-> -1, pct |-> -1, speed |-> -1, eta |-> -1]
Pending == [p \in SrcPaths |-> "pending"]

DirOf(q) == [root |-> q.root, dir |-> q.dir]

\* The stat of a path fails with PermissionError: an entry of the source's
\* sub directory when that directory lacks search permission.
Denied(q) == subDenied /\ q.root = source_dir /\ q.dir = SubDir

\* os.path.islink: lstat errors are swallowed and give False.
islink(q) == ~Denied(q) /\ fs[q].kind = "link"

\* os.path.exists, evaluated once the parent directories have been made:
\* stat errors give False; a path with an empty name is its directory.
exists(q) ==
    IF Denied(q) THEN FALSE
    ELSE IF q.name = <<>> THEN TRUE
    ELSE fs[q].kind # "none"

\* os.path.getsize raises PermissionError.
StatFails(q) == Denied(q)

\* os.path.getsize, when it does not raise.
getsize(q) == IF q.name = <<>> THEN DirSize ELSE Len(fs[q].data)

\* A transfer that makes the destination root only, never line 67's
\* directories.
makedirsRootOnly(q) == dirs \cup {[root |-> q.root, dir |-> RootDir]}

\* os.makedirs(dirname, exist_ok=True): the directories it leaves existing.
makedirs(q) == dirs \cup {[root |-> q.root, dir |-> RootDir], DirOf(q)}

\* A destination path joined to the wrong root.
DestPathUnderSource(p) == Path(source_dir, p.dir, safe_string(p.name))

\* A destination path whose directory segments are sanitized too.
DestPathAllSanitized(p) ==
    Path(destination_dir, [i \in 1..Len(p.dir) |-> safe_string(p.dir[i])],
         safe_string(p.name))

\* Lines 59-64: the destination path of a source file.
DestPath(p) == Path(destination_dir, p.dir, safe_string(p.name))

\* A walk that takes links too.
InInventoryNoLinkTest(p) == TRUE

\* Line 45: whether the walk takes the entry into the inventory.
InInventory(p) == ~islink(p)

\* A skip rule that also skips over a larger destination file.
SameSizeOrLarger(a, b) == a <= b

\* A skip rule that also skips over a smaller (partial) destination file.
SameSizeOrSmaller(a, b) == a >= b

\* Line 70: the skip rule.
SameSize(a, b) == a = b

SkipRule(p) ==
    /\ exists(DestPath(p))
    /\ ~StatFails(p)
    /\ SameSize(getsize(p), getsize(DestPath(p)))

Min(a, b) == IF a < b THEN a ELSE b

\* A read that returns only whole chunks: a short last chunk is lost.
ReadWholeChunks(data, pos) ==
    IF pos + CHUNK <= Len(data) THEN SubSeq(data, pos + 1, pos + CHUNK) ELSE <<>>

\* Line 84: src.read(1024 * 1024) at offset pos.
read(data, pos) == SubSeq(data, pos + 1, Min(pos + CHUNK, Len(data)))

\* Lines 90-95: the progress computation.
\* progress_percentage, in hundredths of a percent (total # 0).
Percentage(c, t) == (c * 10000) \div t
\* The speed computed without its guard.
SpeedDividesAlways(e) == TRUE

\* Line 93: the guard under which elapsed_time is a divisor.
SpeedDivides(e) == e > 0
\* Line 94: the guard under which progress_percentage is a divisor.
EtaDivides(p) == p > 0

\* Whether the computation raises ZeroDivisionError, which no handler of
\* the program catches.
RaisesZeroDivision(c, t, e) ==
    \/ t = 0
    \/ SpeedDivides(e) /\ e = 0
    \/ t # 0 /\ EtaDivides(Percentage(c, t)) /\ Percentage(c, t) = 0

Progress(c, t, e) ==
    LET p == Percentage(c, t) IN
    [ elapsed |-> e,
      pct     |-> p,
      speed   |-> IF SpeedDivides(e) THEN c \div e ELSE 0,
      eta     |-> IF EtaDivides(p) THEN ((e * (10000 - p)) \div p) \div 60 ELSE 0 ]

\* ------------------------------------------------------------------- Init

\* len(sys.argv) of an invocation: with two or with three arguments.
ArgCounts == {3, 4}
Verbs == {"copy", "move"}

\* Sizes of the second root file and of the file in sub.
SmallSizes == {1, 2}
SubSizes == {0, DirSize}
\* Sizes of a file already at the destination.
OldSizes == {2, 3}

FirstEntries == {NoFile} \cup {File(Data("e_acute", n)) : n \in 0..MaxSize}
SecondEntries ==
    {NoFile, Link(Data("target", 1))} \cup {File(Data("e", n)) : n \in SmallSizes}
SubEntries ==
    {Link(Data("target", 1))} \cup {File(Data("sub", n)) : n \in SubSizes}
OldEntries == {NoFile} \cup {File(Data("old", n)) : n \in OldSizes}
OldSubEntries == {NoFile, File(Data("old", DirSize))}

Empty == [p \in Paths |-> NoFile]

\* The directories a file system's entries imply.
DirsOf(f) ==
    UNION { {[root |-> p.root, dir |-> RootDir], DirOf(p)} :
            p \in {q \in Paths : f[q].kind # "none"} }

\* A source tree with up to two files in its root and up to one in sub, and
\* a destination tree holding files of an earlier transfer.
Trees(dest) ==
    { [p \in Paths |->
         IF p = Path("S", RootDir, NameEAcute) THEN e1
         ELSE IF p = Path("S", RootDir, NameE) THEN e2
         ELSE IF p = Path("S", SubDir, n3) THEN e3
         ELSE IF dest # "S" /\ p = Path(dest, RootDir, NameE) THEN d1
         ELSE IF dest # "S" /\ p = Path(dest, SubDir, NameA) THEN d2
         ELSE NoFile] :
      e1 \in FirstEntries, e2 \in SecondEntries,
      n3 \in {NameA, NameKanji, NameBel}, e3 \in SubEntries \cup {NoFile},
      d1 \in OldEntries, d2 \in OldSubEntries }

InitProgram ==
    /\ pc = "main"
    /\ exit_code = -1
    /\ exc = "none"
    /\ walk_todo = <<>>
    /\ files_list = <<>>
    /\ total_size_bytes = 0
    /\ completed_bytes = 0
    /\ resume_notified = FALSE
    /\ notices = <<>>
    /\ idx = 0
    /\ transferred_bytes = 0
    /\ stats = NoStats
    /\ warned_walk = {}
    /\ warned = {}
    /\ outcome = Pending

InitWith(dests, verbs) ==
    /\ argc \in ArgCounts
    /\ verb \in verbs
    /\ destination_dir \in dests
    /\ subDenied \in BOOLEAN
    /\ \/ \* the source path exists
          /\ fs \in Trees(destination_dir)
          /\ dirs = DirsOf(fs) \cup {[root |-> "S", dir |-> RootDir],
                                     [root |-> "S", dir |-> SubDir]}
       \/ \* the source path does not exist
          /\ destination_dir # "S"
          /\ fs = Empty
          /\ dirs = {}
    /\ fs0 = fs
    /\ run = 1
    /\ prev_outcome = Pending
    /\ InitProgram

\* copy from S to the disjoint D.
Init == InitWith({"D"}, {"copy"})

\* any verb, and a destination that may be the source directory itself.
InitAny == InitWith(Roots, Verbs)

\* ------------------------------------------------------------------- main

\* Lines 106-108: wrong argument count.
MainUsage ==
    /\ pc = "main"
    /\ argc # 4
    /\ pc' = "exit1"
    /\ exit_code' = 1
    /\ UNCHANGED << argc, verb, destination_dir, subDenied, fs, fs0, dirs, exc, run,
                    walk_todo, files_list, total_size_bytes, completed_bytes,
                    resume_notified, notices, idx, transferred_bytes, stats,
                    warned_walk, warned, outcome, prev_outcome >>

\* A main without the check of line 113.
SourceExistsUnchecked == TRUE

\* Line 113: os.path.exists(source).
SourceExists == [root |-> source_dir, dir |-> RootDir] \in dirs
\* Line 35: the destination root transfer_directory makes when absent.
DestRoot == [root |-> destination_dir, dir |-> RootDir]

\* Lines 113-115: the source path does not exist.
MainNoSource ==
    /\ pc = "main"
    /\ argc = 4
    /\ ~SourceExists
    /\ pc' = "exit1"
    /\ exit_code' = 1
    /\ UNCHANGED << argc, verb, destination_dir, subDenied, fs, fs0, dirs, exc, run,
                    walk_todo, files_list, total_size_bytes, completed_bytes,
                    resume_notified, notices, idx, transferred_bytes, stats,
                    warned_walk, warned, outcome, prev_outcome >>

\* Lines 117, 35-41: transfer_directory is entered, the destination root is
\* made when absent and the walk starts.
MainStart ==
    /\ pc = "main"
    /\ argc = 4
    /\ SourceExists
    /\ dirs' = dirs \cup {DestRoot}
    /\ walk_todo' = SelectSeq(WalkOrder, LAMBDA p : fs[p].kind # "none")
    /\ files_list' = <<>>
    /\ total_size_bytes' = 0
    /\ pc' = "walk"
    /\ UNCHANGED << argc, verb, destination_dir, subDenied, fs, fs0, exit_code, exc,
                    run, completed_bytes, resume_notified, notices, idx,
                    transferred_bytes, stats, warned_walk, warned, outcome,
                    prev_outcome >>

\* Line 36: os.makedirs of the destination root raises; nothing catches it.
MainMkdirFail ==
    /\ pc = "main"
    /\ argc = 4
    /\ SourceExists
    /\ DestRoot \notin dirs
    /\ pc' = "crashed"
    /\ exc' = "OSError"
    /\ exit_code' = 1
    /\ UNCHANGED << argc, verb, destination_dir, subDenied, fs, fs0, dirs, run,
                    walk_todo, files_list, total_size_bytes, completed_bytes,
                    resume_notified, notices, idx, transferred_bytes, stats,
                    warned_walk, warned, outcome, prev_outcome >>

\* -------------------------------------------------------- inventory walk

\* Lines 42-50, one file name of the walk: a link is passed over; any other
\* entry is appended to files_list and then its size is read, which either
\* adds to total_size_bytes or raises PermissionError (warning, continue).
WalkEntry ==
    /\ pc = "walk"
    /\ walk_todo # <<>>
    /\ LET p == Head(walk_todo) IN
         /\ files_list' = IF InInventory(p) THEN Append(files_list, p) ELSE files_list
         /\ total_size_bytes' =
               IF InInventory(p) /\ ~StatFails(p)
               THEN total_size_bytes + getsize(p) ELSE total_size_bytes
         /\ warned_walk' =
               IF InInventory(p) /\ StatFails(p)
               THEN warned_walk \cup {p} ELSE warned_walk
    /\ walk_todo' = Tail(walk_todo)
    /\ UNCHANGED << argc, verb, destination_dir, subDenied, fs, fs0, dirs, pc,
                    exit_code, exc, run, completed_bytes, resume_notified, notices,
                    idx, transferred_bytes, stats, warned, outcome, prev_outcome >>

\* Lines 52-57: the walk is over; the counters of the transfer are set.
WalkDone ==
    /\ pc = "walk"
    /\ walk_todo = <<>>
    /\ completed_bytes' = 0
    /\ resume_notified' = FALSE
    /\ idx' = 1
    /\ pc' = "loop"
    /\ UNCHANGED << argc, verb, destination_dir, subDenied, fs, fs0, dirs, exit_code,
                    exc, run, walk_todo, files_list, total_size_bytes, notices,
                    transferred_bytes, stats, warned_walk, warned, outcome,
                    prev_outcome >>

\* --------------------------------------------------------- transfer loop

\* The inventory entry the for loop is at, and its destination path.
Cur == files_list[idx]
Dst == DestPath(Cur)
InLoop == pc = "loop" /\ idx <= Len(files_list)

\* A handler that does not catch the error: the exception leaves the loop.
NextFileUncaught(result) ==
    /\ idx' = idx + 1
    /\ outcome' = [outcome EXCEPT ![Cur] = result]
    /\ pc' = IF result = "failed" THEN "crashed" ELSE "loop"

\* The loop goes on to the next inventory entry.
NextFile(result) ==
    /\ idx' = idx + 1
    /\ outcome' = [outcome EXCEPT ![Cur] = result]
    /\ pc' = "loop"

\* A notice without its resume_notified test: printed for every file.
NotifyEveryFile ==
    /\ resume_notified' = TRUE
    /\ notices' = Append(notices, Cur.name)

\* Lines 75-77: the first-copy notice.
Notify ==
    /\ resume_notified' = TRUE
    /\ notices' = IF resume_notified THEN notices ELSE Append(notices, Cur.name)

\* Lines 100-101: the handler of PermissionError and OSError.
Warn == warned' = warned \cup {Cur}

\* Line 67 raises: a directory of the destination path cannot be made.
FileMkdirFail ==
    /\ InLoop
    /\ DirOf(Dst) \notin dirs
    /\ Warn
    /\ NextFile("failed")
    /\ UNCHANGED << argc, verb, destination_dir, subDenied, fs, fs0, dirs, exit_code,
                    exc, run, walk_todo, files_list, total_size_bytes,
                    completed_bytes, resume_notified, notices, transferred_bytes,
                    stats, warned_walk, prev_outcome >>

\* os.path.getsize(file_path) raises: at line 70 when the destination
\* exists, else at line 79, after the first-copy notice.
FileStatFail ==
    /\ InLoop
    /\ StatFails(Cur)
    /\ dirs' = makedirs(Dst)
    /\ IF exists(Dst) THEN UNCHANGED << resume_notified, notices >> ELSE Notify
    /\ Warn
    /\ NextFile("failed")
    /\ UNCHANGED << argc, verb, destination_dir, subDenied, fs, fs0, exit_code, exc,
                    run, walk_todo, files_list, total_size_bytes, completed_bytes,
                    transferred_bytes, stats, warned_walk, prev_outcome >>

\* A skip branch that leaves completed_bytes alone.
FileSkipNoCount ==
    /\ InLoop
    /\ SkipRule(Cur)
    /\ dirs' = makedirs(Dst)
    /\ NextFile("skipped")
    /\ UNCHANGED << argc, verb, destination_dir, subDenied, fs, fs0, exit_code, exc,
                    run, walk_todo, files_list, total_size_bytes, completed_bytes,
                    resume_notified, notices, transferred_bytes, stats, warned_walk,
                    warned, prev_outcome >>

\* Lines 70-72: the destination exists with the source's size.
FileSkip ==
    /\ InLoop
    /\ SkipRule(Cur)
    /\ dirs' = makedirs(Dst)
    /\ completed_bytes' = completed_bytes + getsize(Cur)
    /\ NextFile("skipped")
    /\ UNCHANGED << argc, verb, destination_dir, subDenied, fs, fs0, exit_code, exc,
                    run, walk_todo, files_list, total_size_bytes, resume_notified,
                    notices, transferred_bytes, stats, warned_walk, warned,
                    prev_outcome >>

\* The file is neither skipped nor abandoned before line 83.
ToCopy == InLoop /\ ~StatFails(Cur) /\ ~SkipRule(Cur)

\* Line 83: open(file_path, "rb") raises.
FileOpenSrcFail ==
    /\ ToCopy
    /\ dirs' = makedirs(Dst)
    /\ Notify
    /\ Warn
    /\ NextFile("failed")
    /\ UNCHANGED << argc, verb, destination_dir, subDenied, fs, fs0, exit_code, exc,
                    run, walk_todo, files_list, total_size_bytes, completed_bytes,
                    transferred_bytes, stats, warned_walk, prev_outcome >>

\* Line 83: open(dest_path, "wb") raises (always when dest_path is a
\* directory); the source is closed again and nothing was truncated.
FileOpenDstFail ==
    /\ ToCopy
    /\ dirs' = makedirs(Dst)
    /\ Notify
    /\ Warn
    /\ NextFile("failed")
    /\ UNCHANGED << argc, verb, destination_dir, subDenied, fs, fs0, exit_code, exc,
                    run, walk_todo, files_list, total_size_bytes, completed_bytes,
                    transferred_bytes, stats, warned_walk, prev_outcome >>

\* An open for appending instead of writing keeps what the file held.
OpenedForAppend(e) == IF e.kind = "none" THEN File(<<>>) ELSE e

\* What open(dest_path, "wb") leaves at dest_path: an empty file (through a
\* link: the link, its target emptied).
Truncated(e) == IF e.kind = "link" THEN Link(<<>>) ELSE File(<<>>)

\* Lines 75-83: notice, then both files are opened; the destination is
\* created or truncated.
FileOpen ==
    /\ ToCopy
    /\ Dst.name # <<>>
    /\ ~Denied(Dst)
    /\ dirs' = makedirs(Dst)
    /\ Notify
    /\ fs' = [fs EXCEPT ![Dst] = Truncated(@)]
    /\ transferred_bytes' = 0
    /\ pc' = "copy"
    /\ UNCHANGED << argc, verb, destination_dir, subDenied, fs0, exit_code, exc, run,
                    walk_todo, files_list, total_size_bytes, completed_bytes, idx,
                    stats, warned_walk, warned, outcome, prev_outcome >>

\* The chunk the next src.read returns.
Chunk == read(fs[Cur].data, transferred_bytes)

\* A handler that cleans up: the partial destination file is removed.
ReadFailCleanup ==
    /\ pc = "copy"
    /\ fs' = [fs EXCEPT ![Dst] = NoFile]
    /\ Warn
    /\ NextFile("failed")
    /\ UNCHANGED << argc, verb, destination_dir, subDenied, fs0, dirs, exit_code,
                    exc, run, walk_todo, files_list, total_size_bytes,
                    completed_bytes, resume_notified, notices, transferred_bytes,
                    stats, warned_walk, prev_outcome >>

\* Line 84: src.read raises.
ReadFail ==
    /\ pc = "copy"
    /\ Warn
    /\ NextFile("failed")
    /\ UNCHANGED << argc, verb, destination_dir, subDenied, fs, fs0, dirs, exit_code,
                    exc, run, walk_todo, files_list, total_size_bytes,
                    completed_bytes, resume_notified, notices, transferred_bytes,
                    stats, warned_walk, prev_outcome >>

\* Line 84: the read is empty; the loop ends and both files are closed.
ReadEOF ==
    /\ pc = "copy"
    /\ Chunk = <<>>
    /\ NextFile("copied")
    /\ UNCHANGED << argc, verb, destination_dir, subDenied, fs, fs0, dirs, exit_code,
                    exc, run, walk_todo, files_list, total_size_bytes,
                    completed_bytes, resume_notified, notices, transferred_bytes,
                    stats, warned_walk, warned, prev_outcome >>

\* Line 85: dst.write raises, having written only part of the chunk.
WriteFail ==
    /\ pc = "copy"
    /\ Chunk # <<>>
    /\ \E k \in 0..(Len(Chunk) - 1) :
          fs' = [fs EXCEPT ![Dst].data = @ \o SubSeq(Chunk, 1, k)]
    /\ Warn
    /\ NextFile("failed")
    /\ UNCHANGED << argc, verb, destination_dir, subDenied, fs0, dirs, exit_code, exc,
                    run, walk_todo, files_list, total_size_bytes, completed_bytes,
                    resume_notified, notices, transferred_bytes, stats, warned_walk,
                    prev_outcome >>

\* A chunk loop that counts the chunk size asked for, not the length read.
CopyChunkCountsRequest ==
    /\ pc = "copy"
    /\ Chunk # <<>>
    /\ fs' = [fs EXCEPT ![Dst].data = @ \o Chunk]
    /\ transferred_bytes' = transferred_bytes + Len(Chunk)
    /\ completed_bytes' = completed_bytes + CHUNK
    /\ \E e \in ElapsedValues :
          IF RaisesZeroDivision(completed_bytes', total_size_bytes, e)
          THEN /\ pc' = "crashed"
               /\ exc' = "ZeroDivisionError"
               /\ exit_code' = 1
               /\ UNCHANGED stats
          ELSE /\ stats' = Progress(completed_bytes', total_size_bytes, e)
               /\ UNCHANGED << pc, exc, exit_code >>
    /\ UNCHANGED << argc, verb, destination_dir, subDenied, fs0, dirs, run,
                    walk_todo, files_list, total_size_bytes, resume_notified,
                    notices, idx, warned_walk, warned, outcome, prev_outcome >>

\* Lines 84-98: one pass of the chunk loop: read, write, both counters, the
\* statistics and the progress line.  A ZeroDivisionError in the statistics
\* leaves the with block and the function: the process dies.
CopyChunk ==
    /\ pc = "copy"
    /\ Chunk # <<>>
    /\ fs' = [fs EXCEPT ![Dst].data = @ \o Chunk]
    /\ transferred_bytes' = transferred_bytes + Len(Chunk)
    /\ completed_bytes' = completed_bytes + Len(Chunk)
    /\ \E e \in ElapsedValues :
          IF RaisesZeroDivision(completed_bytes', total_size_bytes, e)
          THEN /\ pc' = "crashed"
               /\ exc' = "ZeroDivisionError"
               /\ exit_code' = 1
               /\ UNCHANGED stats
          ELSE /\ stats' = Progress(completed_bytes', total_size_bytes, e)
               /\ UNCHANGED << pc, exc, exit_code >>
    /\ UNCHANGED << argc, verb, destination_dir, subDenied, fs0, dirs, run,
                    walk_todo, files_list, total_size_bytes, resume_notified,
                    notices, idx, warned_walk, warned, outcome, prev_outcome >>

\* Line 103 and the return to main: the completion notice; exit status 0.
Completion ==
    /\ pc = "loop"
    /\ idx > Len(files_list)
    /\ pc' = "done"
    /\ exit_code' = 0
    /\ UNCHANGED << argc, verb, destination_dir, subDenied, fs, fs0, dirs, exc, run,
                    walk_todo, files_list, total_size_bytes, completed_bytes,
                    resume_notified, notices, idx, transferred_bytes, stats,
                    warned_walk, warned, outcome, prev_outcome >>

\* Lines 119-120: the program is invoked again with the same arguments, on
\* the file system the first invocation left.
Rerun ==
    /\ pc = "done"
    /\ run = 1
    /\ run' = 2
    /\ prev_outcome' = outcome
    /\ pc' = "main"
    /\ exit_code' = -1
    /\ walk_todo' = <<>>
    /\ files_list' = <<>>
    /\ total_size_bytes' = 0
    /\ completed_bytes' = 0
    /\ resume_notified' = FALSE
    /\ notices' = <<>>
    /\ idx' = 0
    /\ transferred_bytes' = 0
    /\ stats' = NoStats
    /\ warned_walk' = {}
    /\ warned' = {}
    /\ outcome' = Pending
    /\ UNCHANGED << argc, verb, destination_dir, subDenied, fs, fs0, dirs, exc >>

\* What a kill leaves of the destination file being written: the bytes of a
\* short last chunk may still be in the writer's buffer and be lost, and the
\* write in progress may have put a part of its chunk into the file.
KilledData(data) ==
    {SubSeq(data, 1, Len(data) - (Len(data) % CHUNK))}
        \cup {data \o SubSeq(Chunk, 1, k) : k \in 0..Len(Chunk)}

\* The first invocation is killed (SIGKILL, power loss) during the transfer
\* loop: between two files, or while a file is being copied.
Kill ==
    /\ run = 1
    /\ pc \in {"loop", "copy"}
    /\ IF pc = "copy"
       THEN /\ \E d \in KilledData(fs[Dst].data) :
                  fs' = [fs EXCEPT ![Dst].data = d]
            /\ outcome' = [outcome EXCEPT ![Cur] = "interrupted"]
       ELSE UNCHANGED << fs, outcome >>
    /\ pc' = "killed"
    /\ exit_code' = 137
    /\ UNCHANGED << argc, verb, destination_dir, subDenied, fs0, dirs, exc, run,
                    walk_todo, files_list, total_size_bytes, completed_bytes,
                    resume_notified, notices, idx, transferred_bytes, stats,
                    warned_walk, warned, prev_outcome >>

\* Lines 119-120: after the kill the program is invoked again with the same
\* arguments, on the file system the killed invocation left.
Resume ==
    /\ pc = "killed"
    /\ run = 1
    /\ run' = 2
    /\ prev_outcome' = outcome
    /\ pc' = "main"
    /\ exit_code' = -1
    /\ walk_todo' = <<>>
    /\ files_list' = <<>>
    /\ total_size_bytes' = 0
    /\ completed_bytes' = 0
    /\ resume_notified' = FALSE
    /\ notices' = <<>>
    /\ idx' = 0
    /\ transferred_bytes' = 0
    /\ stats' = NoStats
    /\ warned_walk' = {}
    /\ warned' = {}
    /\ outcome' = Pending
    /\ UNCHANGED << argc, verb, destination_dir, subDenied, fs, fs0, dirs, exc >>

Next ==
    \/ MainUsage \/ MainNoSource \/ MainStart \/ MainMkdirFail
    \/ WalkEntry \/ WalkDone
    \/ FileMkdirFail \/ FileStatFail \/ FileSkip
    \/ FileOpenSrcFail \/ FileOpenDstFail \/ FileOpen
    \/ ReadFail \/ ReadEOF \/ WriteFail \/ CopyChunk
    \/ Completion

NextTwice == Next \/ Rerun

NextResume == Next \/ Kill \/ Resume

\* One invocation, copy, destination disjoint from the source.
Spec == Init /\ [][Next]_vars

\* The same, with the progress the single thread of control makes: every
\* call returns or raises.
SpecLive == Init /\ [][Next]_vars /\ WF_vars(Next)

\* Two invocations in a row.
SpecTwice == Init /\ [][NextTwice]_vars

\* Any verb, and a destination that may be the source itself.
SpecAny == InitAny /\ [][Next]_vars

\* An invocation that may be killed during the transfer, and the
\* uninterrupted invocation that follows a kill.
SpecResume == Init /\ [][NextResume]_vars

\* ------------------------------------------------------------ properties

Range(seq) == {seq[i] : i \in 1..Len(seq)}
Inventory == Range(files_list)
WalkFinished == pc \in {"loop", "copy", "done"}
NoFileFailed(o) == \A p \in SrcPaths : o[p] # "failed"

\* The inventory files after p, in inventory order, that were copied to
\* p's destination path.
CopiedOver(p) ==
    { q \in Inventory :
        /\ q # p
        /\ DestPath(q) = DestPath(p)
        /\ outcome[q] = "copied"
        /\ \E i, j \in 1..Len(files_list) :
              i < j /\ files_list[i] = p /\ files_list[j] = q }

\* C1 (resume idempotence): when two invocations in a row both end without
\* any per-file error, the first has copied or skipped every inventory file
\* and the second takes the skip branch for every inventory file, writing
\* nothing, and still prints the completion notice.
C1_ResumeIdempotence ==
    (run = 2 /\ pc = "done" /\ NoFileFailed(prev_outcome) /\ NoFileFailed(outcome))
        => \A p \in Inventory : outcome[p] = "skipped"

\* The inventory files other than p with p's destination path.
SharesDestination(p) == {q \in Inventory : q # p /\ DestPath(q) = DestPath(p)}

C3_SizeMismatchRecopies ==
    [][ ( /\ InLoop
          /\ ~StatFails(Cur)
          /\ DestPath(Cur).name # <<>>
          /\ fs[DestPath(Cur)].kind = "file"
          /\ Len(fs[DestPath(Cur)].data) # Len(fs[Cur].data) )
        => /\ outcome'[Cur] # "skipped"
           /\ completed_bytes' = completed_bytes
           /\ \/ /\ pc' = "copy"
                 /\ idx' = idx
                 /\ fs'[DestPath(Cur)].data = <<>>
                 /\ transferred_bytes' = 0
              \/ /\ outcome'[Cur] = "failed"
                 /\ Cur \in warned' ]_vars

\* The first inventory file is being re-copied over a destination file
\* that was one byte longer or shorter than it.
C3_Witness ==
    /\ pc = "copy"
    /\ idx = 1
    /\ transferred_bytes = 0
    /\ fs0[Dst].kind = "file"
    /\ fs[Dst].data = <<>>
    /\ \/ Len(fs0[Dst].data) = Len(fs[Cur].data) + 1
       \/ Len(fs0[Dst].data) + 1 = Len(fs[Cur].data)

\* C4 (chunked copy fidelity): while a file is copied, the destination
\* holds exactly the first transferred_bytes bytes of the source, so the
\* chunks written concatenate in order; the loop ends without error only
\* at the first empty read, which is when the whole source has been
\* transferred, and the destination then equals the source byte for byte.
C4_ChunkedCopyFidelity ==
    [][ /\ pc' = "copy"
           => /\ fs'[Dst'].data = SubSeq(fs'[Cur'].data, 1, transferred_bytes')
              /\ transferred_bytes' <= Len(fs'[Cur'].data)
        /\ (pc = "copy" /\ outcome'[Cur] = "copied")
           => /\ read(fs[Cur].data, transferred_bytes) = <<>>
              /\ transferred_bytes = Len(fs[Cur].data)
              /\ fs'[Dst].data = fs'[Cur].data
        /\ (pc = "copy" /\ transferred_bytes < Len(fs[Cur].data))
           => /\ outcome'[Cur] # "copied"
              /\ read(fs[Cur].data, transferred_bytes) # <<>> ]_vars

\* A file of one chunk plus one byte has just been copied whole.
C4_Witness ==
    \E p \in Inventory :
        /\ outcome[p] = "copied"
        /\ Len(fs[p].data) = CHUNK + 1
        /\ fs[DestPath(p)].data = fs[p].data
        /\ pc = "loop"
        /\ idx > 1
        /\ files_list[idx - 1] = p

RECURSIVE SumOfSizes(_)
SumOfSizes(S) ==
    IF S = {} THEN 0
    ELSE LET p == CHOOSE q \in S : TRUE
         IN  Len(fs[p].data) + SumOfSizes(S \ {p})

\* The entries of the source tree that os.walk lists as file names.
SourceEntries == {p \in SrcPaths : fs[p].kind # "none"}
RegularFiles == {p \in SourceEntries : fs[p].kind = "file"}
Links == {p \in SourceEntries : fs[p].kind = "link"}

C6_DeniedEntrySkipped ==
    WalkFinished
        => /\ \A p \in warned_walk : p \notin Inventory
           /\ total_size_bytes = SumOfSizes(Inventory \ warned_walk)

Failed == {p \in Inventory : outcome[p] = "failed"}

\* C7 (non-fatal error isolation): when the run is over and exactly one
\* inventory file was abandoned on an error, that file was warned about,
\* the exit status is 0, and every other inventory file is at its
\* destination path with the source's size, and with the source's content
\* if it was copied in this run.
C7_ErrorIsolation ==
    (pc = "done" /\ Cardinality(Failed) = 1)
        => /\ Failed \subseteq warned
           /\ exit_code = 0
           /\ \A y \in Inventory \ Failed :
                 /\ exists(DestPath(y))
                 /\ getsize(DestPath(y)) = getsize(y)
                 /\ outcome[y] = "copied" => fs[DestPath(y)].data = fs[y].data

Processed == \A p \in Inventory : outcome[p] \in {"skipped", "copied", "failed"}

C9_NoZeroDivisor ==
    /\ exc # "ZeroDivisionError"
    /\ (pc = "copy" /\ Chunk # <<>>)
          => /\ total_size_bytes # 0
             /\ \A e \in ElapsedValues :
                   ~RaisesZeroDivision(completed_bytes + Len(Chunk),
                                       total_size_bytes, e)
    /\ stats # NoStats
          => /\ total_size_bytes # 0
             /\ stats.pct > 0
             /\ stats.elapsed = 0 => stats.speed = 0
    /\ (WalkFinished /\ files_list = <<>>)
          => /\ stats = NoStats
             /\ pc = "done" => exit_code = 0

\* A progress line was computed within the clock tick the transfer began in.
C9_Witness ==
    /\ pc = "copy"
    /\ stats # NoStats
    /\ stats.elapsed = 0
    /\ stats.pct > 0

\* The directories that existed when the run started.
Dirs0 ==
    DirsOf(fs0) \cup
    (IF SourceExists
     THEN {[root |-> "S", dir |-> RootDir], [root |-> "S", dir |-> SubDir]} ELSE {})

Terminated == pc \in {"done", "exit1", "crashed"}
\* main's two fatal conditions, read off the state the run started in.
WrongArgCount == argc # 4
SourceMissing == [root |-> source_dir, dir |-> RootDir] \notin dirs
\* No work was done: no directory made, no inventory built, nothing written.
NothingDone ==
    /\ fs = fs0
    /\ dirs = Dirs0
    /\ files_list = <<>>
    /\ total_size_bytes = 0
    /\ walk_todo = <<>>
    /\ notices = <<>>
    /\ warned = {} /\ warned_walk = {}

PastSkipTest ==
    /\ InLoop
    /\ DirOf(Dst) \in dirs'
    /\ ~(exists(Dst) /\ StatFails(Cur))
    /\ ~SkipRule(Cur)

\* C12 as stated: the first-copy notice is printed at most once, by the
\* step taken for the first inventory file that is not skipped and by no
\* other step, it names that file by its sanitized name, and it is there
\* whenever a file is open for copying.
C12_FirstCopyNoticeAsStated ==
    [][ /\ InLoop
           => notices' = IF notices = <<>> /\ outcome'[Cur] # "skipped"
                         THEN <<safe_string(Cur.name)>> ELSE notices
        /\ ~InLoop => notices' = notices
        /\ pc' = "copy" => notices' # <<>> ]_vars

\* C12 (amended): the first-copy notice is printed at most once; it is
\* printed by the step taken for the first inventory file that gets past
\* the skip test (a file that is skipped, or abandoned on an error of
\* makedirs or of the size read of line 70, does not print it) and by no
\* other step; it names that file by its name in the source tree, not
\* sanitized; resume_notified tells whether it was printed; and it has been
\* printed whenever a file is open for copying, also when the open or the
\* size read of line 79 then fails.
C12_FirstCopyNotice ==
    [][ /\ InLoop
           => notices' = IF notices = <<>> /\ PastSkipTest
                         THEN <<Cur.name>> ELSE notices
        /\ ~InLoop => notices' = notices
        /\ resume_notified' <=> notices' # <<>>
        /\ pc' = "copy" => notices' # <<>> ]_vars

\* The first inventory file was skipped and the second is open for
\* copying: the one notice names the second.
C12_Witness ==
    /\ pc = "copy"
    /\ idx = 2
    /\ outcome[files_list[1]] = "skipped"
    /\ notices = <<Cur.name>>
    /\ resume_notified

\* The inventory file whose copy the kill interrupted.
Interrupted(o) == {p \in SrcPaths : o[p] = "interrupted"}

\* C13 (interruption and resume): when a run is killed while a file is
\* being written, that destination file has a size different from its
\* source's unless it is already complete; and when the following
\* uninterrupted run ends without any per-file error, it has not skipped the
\* interrupted file unless that file was complete, and every inventory file
\* is at its destination path with the source's size, the interrupted one
\* with the source's content.
C13_KilledRunResumes ==
    /\ pc = "killed"
          => \A p \in Interrupted(outcome) :
                Len(fs[DestPath(p)].data) = Len(fs[p].data)
                   => fs[DestPath(p)].data = fs[p].data
    /\ ( /\ run = 2 /\ pc = "done"
         /\ Interrupted(prev_outcome) # {}
         /\ NoFileFailed(outcome) )
          => /\ \A p \in Inventory :
                   /\ exists(DestPath(p))
                   /\ getsize(DestPath(p)) = getsize(p)
             /\ \A p \in Interrupted(prev_outcome) :
                   fs[DestPath(p)].data = fs[p].data

\* The step is the skip of the current file, or the write of a chunk.
SkipStep == InLoop /\ outcome'[Cur] = "skipped"
ChunkStep == pc = "copy" /\ transferred_bytes' # transferred_bytes

\* C14 (completed_bytes never decreases): completed_bytes is 0 until the
\* transfer loop starts; the skip of a file adds that file's source size to
\* it; the write of a chunk adds the chunk's length to it and, in the same
\* step, to transferred_bytes; every other step, the steps of the error
\* handler among them, leaves it as it is; so no step decreases or resets it.
C14_CompletedBytesMonotone ==
    /\ [](pc \in {"main", "walk"} => completed_bytes = 0)
    /\ [][ /\ completed_bytes' >= completed_bytes
           /\ SkipStep => completed_bytes' = completed_bytes + Len(fs[Cur].data)
           /\ ChunkStep
                 => /\ Chunk # <<>>
                    /\ completed_bytes' = completed_bytes + Len(Chunk)
                    /\ transferred_bytes' = transferred_bytes + Len(Chunk)
                    /\ fs'[Dst].data = fs[Dst].data \o Chunk
           /\ (pc = "copy" /\ outcome'[Cur] = "pending" /\ fs' # fs) => ChunkStep
           /\ (~SkipStep /\ ~ChunkStep) => completed_bytes' = completed_bytes
           /\ ((InLoop \/ pc = "copy") /\ outcome'[Cur] = "failed")
                 => completed_bytes' = completed_bytes ]_vars

\* A file of non-zero size was skipped, the next file was abandoned on an
\* error after a chunk of it was written, and completed_bytes still counts
\* both.
C14_Witness ==
    /\ pc = "loop"
    /\ idx = 3
    /\ outcome[files_list[1]] = "skipped"
    /\ outcome[files_list[2]] = "failed"
    /\ Len(fs[files_list[1]].data) > 0
    /\ transferred_bytes > 0
    /\ completed_bytes = Len(fs[files_list[1]].data) + transferred_bytes

\* The parent directories of a path: its root and its directory.
Parents(q) == {[root |-> q.root, dir |-> RootDir], DirOf(q)}

\* C15 (directories exist before files are written): whenever a destination
\* file is open for writing, and for every file there is, all parent
\* directories of its path exist; the directories are made before the open
\* is tried, so they are there also when the open fails; making them is
\* idempotent: directories that exist are no error and are left as they
\* are; and no step removes a directory.
C15_DirectoriesBeforeFiles ==
    /\ [](pc = "copy" => Parents(Dst) \subseteq dirs)
    /\ [](\A q \in Paths : fs[q].kind # "none" => Parents(q) \subseteq dirs)
    /\ []((InLoop /\ Parents(Dst) \subseteq dirs) => ~ENABLED FileMkdirFail)
    /\ [][ /\ dirs \subseteq dirs'
           /\ (InLoop /\ Parents(Dst) \subseteq dirs) => dirs' = dirs
           /\ (InLoop /\ pc' = "copy") => Parents(Dst) \subseteq dirs'
           /\ (InLoop /\ dirs' # dirs) => dirs' = dirs \cup Parents(Dst)
           /\ (InLoop /\ outcome'[Cur] = "failed" /\ ~ENABLED FileMkdirFail)
                 => Parents(Dst) \subseteq dirs' ]_vars

\* A file is open for writing in a sub directory of the destination; the
\* destination root and the sub directory were both made by this run.
C15_Witness ==
    /\ pc = "copy"
    /\ Dst.dir = SubDir
    /\ Parents(Dst) \subseteq dirs
    /\ Parents(Dst) \cap Dirs0 = {}
    /\ fs[Dst].kind = "file"

\* The current file's destination exists with the source's size (and its
\* directories are there after line 67).
Skippable ==
    /\ InLoop
    /\ ~StatFails(Cur)
    /\ exists(Dst)
    /\ getsize(Cur) = getsize(Dst)
    /\ DirOf(Dst) \in dirs'

\* C16 (a skip has no effect beyond the counter): when the current file's
\* destination exists with a size equal to the source's, the step taken is
\* the skip and no other step is a skip; it opens neither file: no file's
\* content, kind or existence changes and no copy is begun; it prints no
\* notice, warning or progress line; completed_bytes grows by exactly the
\* source file's size; and the loop is at the next inventory entry.
C16_SkipOnlyCounts ==
    [][ /\ Skippable
           => /\ outcome' = [outcome EXCEPT ![Cur] = "skipped"]
              /\ fs' = fs
              /\ pc' = "loop"
              /\ idx' = idx + 1
              /\ completed_bytes' = completed_bytes + Len(fs[Cur].data)
              /\ transferred_bytes' = transferred_bytes
              /\ total_size_bytes' = total_size_bytes
              /\ files_list' = files_list
              /\ notices' = notices /\ resume_notified' = resume_notified
              /\ warned' = warned /\ warned_walk' = warned_walk
              /\ stats' = stats
              /\ exit_code' = exit_code
              /\ Dst.name # <<>> => dirs' = dirs
        /\ (InLoop /\ outcome'[Cur] = "skipped") => Skippable ]_vars

\* The first of two inventory files, of non-zero size, has just been
\* skipped: the file system is as it was and only the counter has moved.
C16_Witness ==
    /\ pc = "loop"
    /\ idx = 2
    /\ Len(files_list) = 2
    /\ outcome[files_list[1]] = "skipped"
    /\ fs[DestPath(files_list[1])].kind = "file"
    /\ fs = fs0
    /\ completed_bytes = Len(fs[files_list[1]].data)
    /\ completed_bytes > 0
    /\ notices = <<>>

\* The step abandons, on an error, the file being copied after at least one
\* chunk of it was written.
FailsMidCopy ==
    /\ pc = "copy"
    /\ transferred_bytes > 0
    /\ outcome'[Cur] = "failed"

\* s is a prefix of t.
IsPrefix(s, t) == Len(s) <= Len(t) /\ s = SubSeq(t, 1, Len(s))

\* C17 as stated: when an error ends the copy of a file after some chunks
\* were written, the destination file holds exactly the chunks written so
\* far, and the loop is at the next inventory entry.
C17_PartialFileLeftAsStated ==
    [][ FailsMidCopy
           => /\ fs'[Dst].data = SubSeq(fs[Cur].data, 1, transferred_bytes)
              /\ pc' = "loop"
              /\ idx' = idx + 1 ]_vars

\* C17 (amended): when an error ends the copy of a file after some chunks
\* were written, nothing is cleaned up: the destination file is still
\* there, no byte written to it is removed, and it holds the chunks written
\* so far followed by at most the part of the failing write's chunk that
\* reached the file (nothing more when it was the read that failed), so it
\* is a proper prefix of the source or the whole of it; no other file is
\* touched; the file is warned about and the loop is at the next inventory
\* entry.
C17_PartialFileLeft ==
    [][ FailsMidCopy
           => /\ fs'[Dst].kind = fs[Dst].kind
              /\ fs[Dst].kind # "none"
              /\ IsPrefix(fs[Dst].data, fs'[Dst].data)
              /\ SubSeq(fs'[Dst].data, 1, transferred_bytes)
                    = SubSeq(fs[Cur].data, 1, transferred_bytes)
              /\ IsPrefix(fs'[Dst].data, fs[Cur].data)
              /\ Len(fs'[Dst].data) <= transferred_bytes + Len(Chunk)
              /\ Chunk = <<>> => fs' = fs
              /\ \A q \in Paths \ {Dst} : fs'[q] = fs[q]
              /\ dirs' = dirs
              /\ Cur \in warned'
              /\ completed_bytes' = completed_bytes
              /\ pc' = "loop"
              /\ idx' = idx + 1 ]_vars

\* A file of two chunks was abandoned when the write of its second chunk
\* failed: the destination holds the first chunk and one byte of the
\* second, and the loop has moved on.
C17_Witness ==
    /\ pc = "loop"
    /\ idx > 1
    /\ outcome[files_list[idx - 1]] = "failed"
    /\ transferred_bytes = CHUNK
    /\ Len(fs[files_list[idx - 1]].data) = 2 * CHUNK
    /\ fs[DestPath(files_list[idx - 1])].data
          = SubSeq(fs[files_list[idx - 1]].data, 1, CHUNK + 1)

\* Characters of the printable ASCII range, and of the whole ASCII range.
Printable == {"a", "e"}
Ascii == Printable \cup {"bel"}

\* What sanitizing a name is to give: its ASCII characters in their order, a
\* letter with a diacritic giving its base letter, every other character
\* nothing.
RECURSIVE Sanitized(_)
Sanitized(s) ==
    IF s = <<>> THEN <<>>
    ELSE (CASE Head(s) = "e_acute" -> <<"e">>
            [] Head(s) \in Ascii   -> <<Head(s)>>
            [] OTHER               -> <<>>) \o Sanitized(Tail(s))

C19_CompletedWithinTotal ==
    /\ WalkFinished
          => /\ 0 <= completed_bytes
             /\ completed_bytes <= total_size_bytes
    /\ stats # NoStats
          => /\ stats.pct >= 0 /\ stats.pct <= 10000
             /\ stats.elapsed >= 0 => stats.eta >= 0

\* A run in which a file was skipped, a file was copied and a file failed
\* has ended with completed_bytes equal to a non-zero total, the last
\* progress line showing 100 percent.
C19_Witness ==
    /\ pc = "done"
    /\ total_size_bytes > 0
    /\ completed_bytes = total_size_bytes
    /\ stats.pct = 10000
    /\ \E p, q, r \in Inventory :
          outcome[p] = "skipped" /\ outcome[q] = "copied" /\ outcome[r] = "failed"

====
